---- MODULE Spec2Model ----
(***************************************************************************)
(* hstr-rs: the history view engine (app.rs), pagination and selection     *)
(* (ui.rs), the persistence helpers (util.rs) and the key loop (main.rs).  *)
(* Strings are sequences of one-character strings.                         *)
(***************************************************************************)
EXTENDS Integers, Sequences, FiniteSets, TLC

(* ---------------------------------------------------------------------- *)
(* Bounds                                                                  *)
(* ---------------------------------------------------------------------- *)
MaxHist == 4
MaxQuery == 2
MaxLines == 5
MaxSel == 1
MaxKeys == 4

(* ---------------------------------------------------------------------- *)
(* Alphabet, entries                                                       *)
(* ---------------------------------------------------------------------- *)
NL == "\n"
BS == "\\"
\* characters the user can type into the query
QueryChars == {"a", "b", "|", "("}
\* the regex metacharacters among them (regex::escape puts a backslash before)
MetaChars == {"|", "("}
\* the commands that occur in the history file
Entries == {<<"a">>, <<"A", "b">>, <<"b">>}

Min(a, b) == IF a < b THEN a ELSE b

SetOf(s) == {s[i] : i \in 1..Len(s)}

Contains(s, x) == \E i \in 1..Len(s) : s[i] = x

\* Vec::retain(|x| *x != command)
RECURSIVE Without(_, _)
Without(s, x) ==
  IF s = <<>> THEN <<>>
  ELSE IF Head(s) = x THEN Without(Tail(s), x)
       ELSE <<Head(s)>> \o Without(Tail(s), x)

\* itertools::unique: the first occurrence of each element, in order
RECURSIVE Unique(_)
Unique(s) ==
  IF s = <<>> THEN <<>>
  ELSE <<Head(s)>> \o Unique(Without(Tail(s), Head(s)))

(* ---------------------------------------------------------------------- *)
(* util.rs: write_file joins with "\n", read_file splits into lines        *)
(* ---------------------------------------------------------------------- *)
RECURSIVE Join(_)
Join(xs) ==
  IF xs = <<>> THEN <<>>
  ELSE IF Len(xs) = 1 THEN xs[1]
       ELSE xs[1] \o <<NL>> \o Join(Tail(xs))

RECURSIVE Lines(_)
Lines(text) ==
  IF text = <<>> THEN <<>>
  ELSE LET nls == {i \in 1..Len(text) : text[i] = NL}
       IN IF nls = {} THEN <<text>>
          ELSE LET k == CHOOSE i \in nls : \A j \in nls : i <= j
               IN <<SubSeq(text, 1, k - 1)>> \o Lines(SubSeq(text, k + 1, Len(text)))

write_file(thing) == Join(thing)
read_file(file) == Lines(file)

(* ---------------------------------------------------------------------- *)
(* The regex crate, on the alphabet above                                  *)
(* ---------------------------------------------------------------------- *)
\* the query taken as a pattern without escaping
escape_none(s) == s

\* regex::escape: a backslash before every metacharacter
RECURSIVE escape(_)
escape(s) ==
  IF s = <<>> THEN <<>>
  ELSE (IF Head(s) \in MetaChars THEN <<BS, Head(s)>> ELSE <<Head(s)>>)
       \o escape(Tail(s))

\* the pattern as tokens: a literal character or an operator
RECURSIVE Tokens(_)
Tokens(p) ==
  IF p = <<>> THEN <<>>
  ELSE IF Head(p) = BS /\ Len(p) >= 2
       THEN <<[lit |-> TRUE, ch |-> p[2]]>> \o Tokens(SubSeq(p, 3, Len(p)))
       ELSE <<[lit |-> Head(p) \notin MetaChars, ch |-> Head(p)]>> \o Tokens(Tail(p))

IsOp(t, c) == ~t.lit /\ t.ch = c

\* the alternatives of a pattern without groups, split at the operator "|"
RECURSIVE Alternatives(_)
Alternatives(ts) ==
  LET bars == {i \in 1..Len(ts) : IsOp(ts[i], "|")}
  IN IF bars = {} THEN <<[i \in 1..Len(ts) |-> ts[i].ch]>>
     ELSE LET k == CHOOSE i \in bars : \A j \in bars : i <= j
          IN <<[i \in 1..(k - 1) |-> ts[i].ch]>>
             \o Alternatives(SubSeq(ts, k + 1, Len(ts)))

\* RegexBuilder::new(p).case_insensitive(ci).build(): a group that is opened
\* and never closed is a syntax error (the alphabet has no ")")
RegexBuild(p, ci) ==
  LET ts == Tokens(p)
  IN IF \E i \in 1..Len(ts) : IsOp(ts[i], "(")
     THEN [ok |-> FALSE, alts |-> <<>>, ci |-> ci]
     ELSE [ok |-> TRUE, alts |-> Alternatives(ts), ci |-> ci]

ToLowerChar(c) == IF c = "A" THEN "a" ELSE c
Lower(s) == [i \in 1..Len(s) |-> ToLowerChar(s[i])]

IsSubstr(needle, hay) ==
  /\ Len(needle) <= Len(hay)
  /\ \E i \in 0..(Len(hay) - Len(needle)) : SubSeq(hay, i + 1, i + Len(needle)) = needle

\* a match that ignores the case_insensitive flag of the builder
is_match_exact(r, x) == \E k \in 1..Len(r.alts) : IsSubstr(r.alts[k], x)

\* Regex::is_match: unanchored, some alternative occurs in x
is_match(r, x) ==
  \E k \in 1..Len(r.alts) :
    IF r.ci THEN IsSubstr(Lower(r.alts[k]), Lower(x))
    ELSE IsSubstr(r.alts[k], x)

(* ---------------------------------------------------------------------- *)
(* app.rs                                                                  *)
(* ---------------------------------------------------------------------- *)
Views == {"Sorted", "Favorites", "All"}
ViewNum(v) == IF v = "Sorted" THEN 0 ELSE IF v = "Favorites" THEN 1 ELSE 2

Count(h, e) == Cardinality({i \in 1..Len(h) : h[i] = e})
LastPos(h, e) == CHOOSE i \in 1..Len(h) : h[i] = e /\ \A j \in 1..Len(h) : h[j] = e => j <= i

\* a ranking that puts the less recent of two equally frequent entries first
RankedBefore_oldest(h, e, f) ==
  \/ Count(h, e) > Count(h, f)
  \/ Count(h, e) = Count(h, f) /\ LastPos(h, e) < LastPos(h, f)

\* e ranks before f: used more often, or as often and more recently
RankedBefore(h, e, f) ==
  \/ Count(h, e) > Count(h, f)
  \/ Count(h, e) = Count(h, f) /\ LastPos(h, e) > LastPos(h, f)

RECURSIVE RankSet(_, _)
RankSet(h, S) ==
  IF S = {} THEN <<>>
  ELSE LET b == CHOOSE e \in S : \A f \in S \ {e} : RankedBefore(h, e, f)
       IN <<b>> \o RankSet(h, S \ {b})

\* sort::sort: deduplicated, by frequency and then by recency
sort(h) == RankSet(h, SetOf(h))

create_search_regex(search_string, regex_mode, case_sensitivity) ==
  RegexBuild(IF regex_mode THEN search_string ELSE escape(search_string),
             ~case_sensitivity)

\* Vec::retain(|x| search_regex.is_match(x))
RECURSIVE RetainMatch(_, _)
RetainMatch(s, r) ==
  IF s = <<>> THEN <<>>
  ELSE (IF is_match(r, Head(s)) THEN <<Head(s)>> ELSE <<>>) \o RetainMatch(Tail(s), r)

\* Application::search on the sequence of the active view
search(cmds, search_string, regex_mode, case_sensitivity) ==
  LET r == create_search_regex(search_string, regex_mode, case_sensitivity)
  IN IF r.ok THEN RetainMatch(cmds, r) ELSE cmds

\* a restore that leaves the view table as it is
restore_none(cmds, saved) == cmds

\* Application::restore: the view table becomes a copy of the saved one
restore(cmds, saved) == saved

\* a toggle that never removes
add_or_rm_fav_keep(favorites, command) ==
  IF ~Contains(favorites, command) THEN Append(favorites, command)
  ELSE favorites

add_or_rm_fav(favorites, command) ==
  IF ~Contains(favorites, command) THEN Append(favorites, command)
  ELSE Without(favorites, command)

\* a toggle that switches the flag on and never off
toggle_case_on(flag) == TRUE

toggle_case(flag) == ~flag

toggle_regex_mode(flag) == ~flag

\* a cycle through the views in the opposite order
toggle_view_back(v) ==
  IF v = "Sorted" THEN "All" ELSE IF v = "Favorites" THEN "Sorted" ELSE "Favorites"

toggle_view(v) ==
  LET n == (ViewNum(v) + 1) % 3
  IN IF n = 0 THEN "Sorted" ELSE IF n = 1 THEN "Favorites" ELSE "All"

(* ---------------------------------------------------------------------- *)
(* ui.rs                                                                   *)
(* ---------------------------------------------------------------------- *)
\* commands.chunks(LINES - 3)
ChunkSize(lines) == lines - 3

\* a page count that leaves out the partial last chunk
total_pages_floor(cmds, lines) == Len(cmds) \div ChunkSize(lines)

total_pages(cmds, lines) == (Len(cmds) + ChunkSize(lines) - 1) \div ChunkSize(lines)

\* pages of full chunks only, as chunks_exact would give
contents_exact(value, cmds, lines) ==
  IF value * ChunkSize(lines) <= Len(cmds)
  THEN SubSeq(cmds, (value - 1) * ChunkSize(lines) + 1, value * ChunkSize(lines))
  ELSE <<>>

\* Page::contents: the chunk number value - 1, or nothing
contents(value, cmds, lines) ==
  IF (value - 1) * ChunkSize(lines) < Len(cmds)
  THEN SubSeq(cmds, (value - 1) * ChunkSize(lines) + 1,
              Min(value * ChunkSize(lines), Len(cmds)))
  ELSE <<>>

size(value, cmds, lines) == Len(contents(value, cmds, lines))

\* Page::selected unwraps: there must be an entry at the index
HasSelected(value, cmds, lines, index) ==
  index >= 0 /\ index < size(value, cmds, lines)

PageSelected(value, cmds, lines, index) == contents(value, cmds, lines)[index + 1]

\* a page turn that forgets that pages are 1-based
turn_page_onebased(value, cmds, lines, direction) ==
  LET next == value + direction
      pages == total_pages(cmds, lines)
  IN IF pages = 0 THEN 1 ELSE (next % pages) + 1

turn_page(value, cmds, lines, direction) ==
  LET next == value - 1 + direction
      pages == total_pages(cmds, lines)
  IN IF pages = 0 THEN 1 ELSE (next % pages) + 1

\* a move that wraps inside the page and never turns it
move_selected_inpage(selected0, value, cmds, lines, direction) ==
  LET page_size == size(value, cmds, lines)
      moved == selected0 + direction
  IN IF page_size = 0 THEN [selected |-> moved, page |-> value]
     ELSE [selected |-> moved % page_size, page |-> value]

\* a move that turns back a page without putting the index on that page's
\* last entry
move_selected_stale(selected0, value, cmds, lines, direction) ==
  LET page_size == size(value, cmds, lines)
      moved == selected0 + direction
  IN IF page_size = 0 THEN [selected |-> moved, page |-> value]
     ELSE LET wraparound == moved % page_size
          IN IF direction = 1 /\ wraparound = 0
             THEN [selected |-> 0, page |-> turn_page(value, cmds, lines, 1)]
             ELSE IF direction = -1 /\ wraparound = page_size - 1
             THEN [selected |-> wraparound, page |-> turn_page(value, cmds, lines, -1)]
             ELSE [selected |-> wraparound, page |-> value]

move_selected(selected0, value, cmds, lines, direction) ==
  LET page_size == size(value, cmds, lines)
      moved == selected0 + direction
  IN IF page_size = 0 THEN [selected |-> moved, page |-> value]
     ELSE LET wraparound == moved % page_size
          IN IF direction = 1 /\ wraparound = 0
             THEN [selected |-> 0, page |-> turn_page(value, cmds, lines, 1)]
             ELSE IF direction = -1 /\ wraparound = page_size - 1
             THEN LET p == turn_page(value, cmds, lines, -1)
                  IN [selected |-> size(p, cmds, lines) - 1, page |-> p]
             ELSE [selected |-> wraparound, page |-> value]

retain_selected(selected0, value, cmds, lines) ==
  IF selected0 = size(value, cmds, lines) - 1 THEN selected0 - 1 ELSE selected0

(* ---------------------------------------------------------------------- *)
(* State                                                                   *)
(* ---------------------------------------------------------------------- *)
VARIABLES
  raw_history,      \* Application::raw_history
  commands,         \* Application::commands, one sequence per view
  to_restore,       \* Application::to_restore
  search_string,    \* Application::search_string
  regex_mode,       \* Application::regex_mode
  case_sensitivity, \* Application::case_sensitivity
  view,             \* Application::view
  selected,         \* UserInterface::selected
  page,             \* UserInterface::page.value
  LINES,            \* ncurses LINES, the height of the terminal
  fav_file,         \* the text of ~/.config/hstr-rs/.<shell>_favorites
  hist_file,        \* the text of ~/.<shell>_history
  echoed,           \* what util::echo pushed into the terminal input
  status,           \* the position of main: running, done, aborted, panicked
  key,              \* the key event handled last
  keys              \* the number of key events handled so far

vars == <<raw_history, commands, to_restore, search_string, regex_mode,
          case_sensitivity, view, selected, page, LINES, fav_file, hist_file,
          echoed, status, key, keys>>

\* the smallest terminal that leaves one row for commands
MinLines == 4

\* the history file at startup: the first lines of a log in which one command
\* is repeated
LogLine(i) ==
  IF i % 4 = 1 THEN <<"a">>
  ELSE IF i % 4 = 2 THEN <<"A", "b">>
  ELSE IF i % 4 = 3 THEN <<"a">>
  ELSE <<"b">>
Histories == {[i \in 1..n |-> LogLine(i)] : n \in 0..MaxHist}
\* the favorites file at startup: absent (created empty) or holding one command
FavoriteLists == {<<>>} \cup {<<e>> : e \in Entries}

get_commands == commands[view]

Key(type, yes) == [type |-> type, yes |-> yes]

\* Application::new and load_history, on a history file holding h and a
\* favorites file holding f
Loaded(h, f) ==
  /\ hist_file = write_file(h)
  /\ fav_file = write_file(f)
  /\ raw_history = read_file(hist_file)
  /\ commands = [v \in Views |->
                   IF v = "Sorted" THEN sort(read_file(hist_file))
                   ELSE IF v = "Favorites" THEN read_file(fav_file)
                   ELSE Unique(read_file(hist_file))]
  /\ to_restore = commands
  /\ search_string = <<>>
  /\ regex_mode = FALSE
  /\ case_sensitivity = FALSE
  /\ echoed = <<>>
  /\ status = "running"
  /\ key = Key("none", FALSE)
  /\ keys = 0

\* main up to the first get_wch
Init ==
  \E h \in Histories, f \in FavoriteLists, l \in MinLines..MaxLines :
    /\ Loaded(h, f)
    /\ view = "Sorted"
    /\ selected = 0
    /\ page = 1
    /\ LINES = l

\* Page::selected(...).unwrap() on a page without an entry at the index
Panic(type) ==
  /\ status' = "panicked"
  /\ key' = Key(type, FALSE)
  /\ keys' = keys + 1
  /\ UNCHANGED <<raw_history, commands, to_restore, search_string, regex_mode,
                 case_sensitivity, view, selected, page, LINES, fav_file,
                 hist_file, echoed>>

\* Application::reload_history on history h: views rebuilt, favorites re-read
Reloaded(h) ==
  [v \in Views |->
     IF v = "Sorted" THEN sort(h)
     ELSE IF v = "Favorites" THEN read_file(fav_file)
     ELSE Unique(h)]

\* a delete key that does not wait for the answer
history_after_any(history, command, yes) == Without(history, command)

\* main.rs, KEY_DC: raw_history loses the command when the answer is Y
history_after(history, command, yes) ==
  IF yes THEN Without(history, command) ELSE history

\* Application::delete_from_history on the view table
Deleted(command) == [v \in Views |-> Without(commands[v], command)]

(* ---------------------------------------------------------------------- *)
(* main.rs: one action per key                                             *)
(* ---------------------------------------------------------------------- *)
CtrlE ==
  /\ status = "running"
  /\ keys < MaxKeys
  /\ regex_mode' = toggle_regex_mode(regex_mode)
  /\ selected' = 0
  /\ key' = Key("CTRL_E", FALSE)
  /\ keys' = keys + 1
  /\ UNCHANGED <<raw_history, commands, to_restore, search_string,
                 case_sensitivity, view, page, LINES, fav_file, hist_file,
                 echoed, status>>

CtrlF ==
  /\ status = "running"
  /\ keys < MaxKeys
  /\ IF ~HasSelected(page, get_commands, LINES, selected)
     THEN Panic("CTRL_F")
     ELSE \E written \in BOOLEAN :
       LET command == PageSelected(page, get_commands, LINES, selected)
           favorites == add_or_rm_fav(commands["Favorites"], command)
       IN /\ selected' = IF view = "Favorites"
                         THEN retain_selected(selected, page, get_commands, LINES)
                         ELSE selected
          /\ commands' = [commands EXCEPT !["Favorites"] = favorites]
          /\ fav_file' = IF written THEN write_file(favorites) ELSE fav_file
          /\ status' = IF written THEN "running" ELSE "aborted"
          /\ key' = Key("CTRL_F", FALSE)
          /\ keys' = keys + 1
          /\ UNCHANGED <<raw_history, to_restore, search_string, regex_mode,
                         case_sensitivity, view, page, LINES, hist_file, echoed>>

Select(type, suffix) ==
  /\ status = "running"
  /\ keys < MaxKeys
  /\ IF ~HasSelected(page, get_commands, LINES, selected)
     THEN Panic(type)
     ELSE LET command == PageSelected(page, get_commands, LINES, selected)
          IN /\ echoed' = echoed \o command \o suffix
             /\ status' = "done"
             /\ key' = Key(type, FALSE)
             /\ keys' = keys + 1
             /\ UNCHANGED <<raw_history, commands, to_restore, search_string,
                            regex_mode, case_sensitivity, view, selected, page,
                            LINES, fav_file, hist_file>>

Tab == Select("TAB", <<>>)

Enter == Select("ENTER", <<NL>>)

CtrlT ==
  /\ status = "running"
  /\ keys < MaxKeys
  /\ case_sensitivity' = toggle_case(case_sensitivity)
  /\ key' = Key("CTRL_T", FALSE)
  /\ keys' = keys + 1
  /\ UNCHANGED <<raw_history, commands, to_restore, search_string, regex_mode,
                 view, selected, page, LINES, fav_file, hist_file, echoed, status>>

Esc ==
  /\ status = "running"
  /\ keys < MaxKeys
  /\ status' = "done"
  /\ key' = Key("ESC", FALSE)
  /\ keys' = keys + 1
  /\ UNCHANGED <<raw_history, commands, to_restore, search_string, regex_mode,
                 case_sensitivity, view, selected, page, LINES, fav_file,
                 hist_file, echoed>>

CtrlSlash ==
  /\ status = "running"
  /\ keys < MaxKeys
  /\ view' = toggle_view(view)
  /\ selected' = 0
  /\ page' = 1
  /\ key' = Key("CTRL_SLASH", FALSE)
  /\ keys' = keys + 1
  /\ UNCHANGED <<raw_history, commands, to_restore, search_string, regex_mode,
                 case_sensitivity, LINES, fav_file, hist_file, echoed, status>>

\* the default arm: any other character is appended to the query
Char ==
  /\ status = "running"
  /\ keys < MaxKeys
  /\ Len(search_string) < MaxQuery
  /\ \E ch \in QueryChars :
       /\ search_string' = Append(search_string, ch)
       /\ selected' = 0
       /\ page' = 1
       /\ commands' = [commands EXCEPT ![view] =
                         search(commands[view], search_string', regex_mode,
                                case_sensitivity)]
       /\ key' = Key("CHAR", FALSE)
       /\ keys' = keys + 1
  /\ UNCHANGED <<raw_history, to_restore, regex_mode, case_sensitivity, view,
                 LINES, fav_file, hist_file, echoed, status>>

Move(type, direction) ==
  /\ status = "running"
  /\ keys < MaxKeys
  /\ LET m == move_selected(selected, page, get_commands, LINES, direction)
     IN /\ m.selected \in (0 - MaxSel)..MaxSel
        /\ selected' = m.selected
        /\ page' = m.page
  /\ key' = Key(type, FALSE)
  /\ keys' = keys + 1
  /\ UNCHANGED <<raw_history, commands, to_restore, search_string, regex_mode,
                 case_sensitivity, view, LINES, fav_file, hist_file, echoed,
                 status>>

KeyUp == Move("KEY_UP", -1)

KeyDown == Move("KEY_DOWN", 1)

\* String::pop
Pop(s) == IF s = <<>> THEN <<>> ELSE SubSeq(s, 1, Len(s) - 1)

KeyBackspace ==
  /\ status = "running"
  /\ keys < MaxKeys
  /\ search_string' = Pop(search_string)
  /\ LET restored == restore(commands, to_restore)
     IN commands' = [restored EXCEPT ![view] =
                       search(restored[view], search_string', regex_mode,
                              case_sensitivity)]
  /\ key' = Key("KEY_BACKSPACE", FALSE)
  /\ keys' = keys + 1
  /\ UNCHANGED <<raw_history, to_restore, regex_mode, case_sensitivity, view,
                 selected, page, LINES, fav_file, hist_file, echoed, status>>

KeyDc ==
  /\ status = "running"
  /\ keys < MaxKeys
  /\ IF ~HasSelected(page, get_commands, LINES, selected)
     THEN Panic("KEY_DC")
     ELSE \E yes \in BOOLEAN, written \in BOOLEAN :
       LET command == PageSelected(page, get_commands, LINES, selected)
           history == history_after(raw_history, command, yes)
       IN /\ yes \/ written
          /\ key' = Key("KEY_DC", yes)
          /\ keys' = keys + 1
          /\ UNCHANGED <<search_string, regex_mode, case_sensitivity, view,
                         page, LINES, fav_file, echoed>>
          /\ IF ~yes
             THEN /\ raw_history' = history
                  /\ to_restore' = Reloaded(history)
                  /\ commands' = restore(commands, to_restore')
                  /\ UNCHANGED <<selected, hist_file, status>>
             ELSE /\ selected' = retain_selected(selected, page, get_commands, LINES)
                  /\ raw_history' = history
                  /\ IF written
                     THEN /\ hist_file' = write_file(history)
                          /\ to_restore' = Reloaded(history)
                          /\ commands' = restore(Deleted(command), to_restore')
                          /\ UNCHANGED status
                     ELSE /\ commands' = Deleted(command)
                          /\ status' = "aborted"
                          /\ UNCHANGED <<to_restore, hist_file>>

Turn(type, direction) ==
  /\ status = "running"
  /\ keys < MaxKeys
  /\ page' = turn_page(page, get_commands, LINES, direction)
  /\ key' = Key(type, FALSE)
  /\ keys' = keys + 1
  /\ UNCHANGED <<raw_history, commands, to_restore, search_string, regex_mode,
                 case_sensitivity, view, selected, LINES, fav_file, hist_file,
                 echoed, status>>

KeyNpage == Turn("KEY_NPAGE", 1)

KeyPpage == Turn("KEY_PPAGE", -1)

\* the terminal was resized: ncurses has a new LINES, the loop only redraws
KeyResize ==
  /\ status = "running"
  /\ keys < MaxKeys
  /\ \E l \in MinLines..MaxLines : l # LINES /\ LINES' = l
  /\ key' = Key("KEY_RESIZE", FALSE)
  /\ keys' = keys + 1
  /\ UNCHANGED <<raw_history, commands, to_restore, search_string, regex_mode,
                 case_sensitivity, view, selected, page, fav_file, hist_file,
                 echoed, status>>

Next ==
  \/ CtrlE
  \/ CtrlF
  \/ Tab
  \/ Enter
  \/ CtrlT
  \/ Esc
  \/ CtrlSlash
  \/ Char
  \/ KeyUp
  \/ KeyDown
  \/ KeyBackspace
  \/ KeyDc
  \/ KeyNpage
  \/ KeyPpage
  \/ KeyResize

Spec == Init /\ [][Next]_vars

(* ---------------------------------------------------------------------- *)
(* Pagination on its own: the navigation keys from any valid cursor        *)
(* ---------------------------------------------------------------------- *)
MaxN == 5

Max(a, b) == IF a > b THEN a ELSE b

\* n distinct commands: "a", "aa", "aaa", ...
Command(i) == [j \in 1..i |-> "a"]
UiHistory(n) == [i \in 1..n |-> Command(i)]

InitUi ==
  \E n \in 0..MaxN, l \in MinLines..MaxLines, v \in {"Sorted", "All"} :
    /\ Loaded(UiHistory(n), <<>>)
    /\ view = v
    /\ LINES = l
    /\ \E p \in 1..Max(1, total_pages(commands[v], l)) :
         /\ page = p
         /\ \E s \in 0..Max(0, size(p, commands[v], l) - 1) : selected = s

NextUi ==
  \/ KeyUp
  \/ KeyDown
  \/ KeyNpage
  \/ KeyPpage

SpecUi == InitUi /\ [][NextUi]_vars

(* ---------------------------------------------------------------------- *)
(* The favorite key on its own: any favorites file, the cursor on any      *)
(* command of the Sorted or the All view                                   *)
(* ---------------------------------------------------------------------- *)
MaxFav == 2

FavoriteSeqs == UNION {[1..n -> Entries] : n \in 0..MaxFav}

InitFav ==
  \E h \in Histories, f \in FavoriteSeqs, l \in MinLines..MaxLines,
     v \in {"Sorted", "All"} :
    /\ Loaded(h, f)
    /\ view = v
    /\ LINES = l
    /\ \E p \in 1..Max(1, total_pages(commands[v], l)) :
         /\ page = p
         /\ \E s \in 0..Max(0, size(p, commands[v], l) - 1) : selected = s

NextFav == CtrlF

SpecFav == InitFav /\ [][NextFav]_vars

(* ---------------------------------------------------------------------- *)
(* Ranking on its own: any history over the entries, loaded and then        *)
(* reloaded by the delete key                                               *)
(* ---------------------------------------------------------------------- *)
MaxRank == 4

RankHistories == UNION {[1..n -> Entries] : n \in 0..MaxRank}

InitSort ==
  \E h \in RankHistories, l \in MinLines..MaxLines :
    /\ Loaded(h, <<>>)
    /\ view = "Sorted"
    /\ LINES = l
    /\ page = 1
    /\ selected = 0

NextSort == KeyDc

SpecSort == InitSort /\ [][NextSort]_vars

(* ---------------------------------------------------------------------- *)
(* The key loop without the mode keys: literal search, the case flag as     *)
(* loaded                                                                   *)
(* ---------------------------------------------------------------------- *)
NextLit ==
  \/ CtrlF
  \/ CtrlSlash
  \/ Char
  \/ KeyUp
  \/ KeyDown
  \/ KeyBackspace
  \/ KeyDc
  \/ KeyNpage
  \/ KeyPpage

SpecLit == Init /\ [][NextLit]_vars

(* ---------------------------------------------------------------------- *)
(* Query editing on its own: any view and case flag, then characters typed  *)
(* and removed                                                              *)
(* ---------------------------------------------------------------------- *)
InitEdit ==
  \E h \in Histories, f \in FavoriteLists, l \in MinLines..MaxLines,
     v \in Views, cs \in BOOLEAN :
    /\ hist_file = write_file(h)
    /\ fav_file = write_file(f)
    /\ raw_history = read_file(hist_file)
    /\ commands = Reloaded(raw_history)
    /\ to_restore = commands
    /\ search_string = <<>>
    /\ regex_mode = FALSE
    /\ case_sensitivity = cs
    /\ view = v
    /\ selected = 0
    /\ page = 1
    /\ LINES = l
    /\ echoed = <<>>
    /\ status = "running"
    /\ key = Key("none", FALSE)
    /\ keys = 0

NextEdit ==
  \/ Char
  \/ KeyBackspace

SpecEdit == InitEdit /\ [][NextEdit]_vars

(* ---------------------------------------------------------------------- *)
(* Properties                                                              *)
(* ---------------------------------------------------------------------- *)
\* the entry under the cursor when the key arrives
Current == PageSelected(page, get_commands, LINES, selected)

\* max(1, ceil(n / page_size)) for a terminal of l lines
PageCount(n, l) ==
  Max(1, CHOOSE k \in 0..n : k * (l - 3) >= n /\ (k - 1) * (l - 3) < n)

\* the entries of s that the query matches, in order; s itself when the query
\* does not compile
Filter(s, q, rm, cs) ==
  LET r == create_search_regex(q, rm, cs)
      Test(x) == is_match(r, x)
  IN IF r.ok THEN SelectSeq(s, Test) ELSE s

Compiles(q, rm, cs) == create_search_regex(q, rm, cs).ok

\* C1: after a confirmed deletion of e has completed (delete_from_history,
\* the history written, reload_history), e occurs neither in RawHistory nor
\* in any of the three views nor in their snapshot, also when e was a favorite.
C1_DeleteEverywhere ==
  [][(key'.type = "KEY_DC" /\ key'.yes /\ status' = "running")
       => /\ ~Contains(raw_history', Current)
          /\ \A v \in Views : /\ ~Contains(commands'[v], Current)
                              /\ ~Contains(to_restore'[v], Current)]_vars

\* C2: after a favorite toggle of e the persisted favorites are exactly the
\* previously persisted favorites with e appended (absent) or removed
\* (present), whatever the query, the filter of the Favorites view or the view.
C2_PersistedFavorites ==
  [][(key'.type = "CTRL_F" /\ status' = "running")
       => read_file(fav_file') =
            (IF Contains(read_file(fav_file), Current)
             THEN SelectSeq(read_file(fav_file), LAMBDA x : x # Current)
             ELSE Append(read_file(fav_file), Current))]_vars

\* C3: a favorite toggle of e flips the membership of e in Favorites (e is
\* appended at the end when absent, removed when present) and changes no other
\* entry's membership; a second toggle of e restores the set of favorites.
C3_ToggleTwice ==
  [][(key'.type = "CTRL_F" /\ status' # "panicked")
       => LET before == commands["Favorites"]
              after == commands'["Favorites"]
          IN /\ Contains(after, Current) = ~Contains(before, Current)
             /\ ~Contains(before, Current) => after = Append(before, Current)
             /\ SetOf(after) \ {Current} = SetOf(before) \ {Current}
             /\ (keys = 1 /\ key.type = "CTRL_F")
                  => SetOf(after) = SetOf(to_restore["Favorites"])]_vars

\* a state after two toggles of a favorite that was not the last of the list:
\* it went and came back at the end
C3_Witness ==
  /\ keys = 2
  /\ key.type = "CTRL_F"
  /\ status = "running"
  /\ commands["Favorites"] # to_restore["Favorites"]
  /\ SetOf(commands["Favorites"]) = SetOf(to_restore["Favorites"])
  /\ Len(commands["Favorites"]) = 2

\* C4: whenever the active view's filtered sequence is non-empty,
\* 0 <= selected_index < number of entries on page page_number.
C4_CursorOnEntry ==
  (status = "running" /\ Len(get_commands) > 0)
    => (selected >= 0 /\ selected < size(page, get_commands, LINES))

\* C5: page_number lies in [1, max(1, ceil(N / page_size))] in every state.
C5_PageInRange ==
  status = "running"
    => (page >= 1 /\ page <= PageCount(Len(get_commands), LINES))

RECURSIVE TurnTimes(_, _, _, _, _)
TurnTimes(value, cmds, lines, direction, n) ==
  IF n = 0 THEN value
  ELSE TurnTimes(turn_page(value, cmds, lines, direction), cmds, lines, direction, n - 1)

\* C6: turn_page(d) sets page_number to ((page_number - 1 + d) mod page_count)
\* + 1: forward from the last page to page 1, backward from page 1 to the last
\* page, otherwise one page further; a turn and the opposite turn, and
\* page_count turns in one direction, come back to the starting page.
C6_TurnPage ==
  [][(key'.type \in {"KEY_NPAGE", "KEY_PPAGE"})
       => LET d == IF key'.type = "KEY_NPAGE" THEN 1 ELSE -1
              pc == PageCount(Len(get_commands), LINES)
          IN /\ page' = ((page - 1 + d) % pc) + 1
             /\ page \in 1..pc
                  => /\ page' = (IF d = 1 /\ page = pc THEN 1
                                 ELSE IF d = -1 /\ page = 1 THEN pc
                                 ELSE page + d)
                     /\ turn_page(page', get_commands, LINES, 0 - d) = page
                     /\ TurnTimes(page, get_commands, LINES, d, pc) = page]_vars

\* the previous-page key on page 1 of at least three pages went to the last
C6_Witness ==
  /\ key.type = "KEY_PPAGE"
  /\ keys = 1
  /\ total_pages(get_commands, LINES) >= 3
  /\ page = total_pages(get_commands, LINES)

\* C7: on a non-empty page of size S with a valid cursor, move_selected(+1)
\* from S-1 gives index 0 on the next page (page 1 after the last page),
\* move_selected(-1) from 0 gives the previous page (the last page before
\* page 1) with the index on its last entry; otherwise the page stays and the
\* index moves by one.
C7_MoveSelected ==
  [][(/\ key'.type \in {"KEY_UP", "KEY_DOWN"}
      /\ size(page, get_commands, LINES) > 0
      /\ selected \in 0..(size(page, get_commands, LINES) - 1))
       => LET d == IF key'.type = "KEY_DOWN" THEN 1 ELSE -1
              S == size(page, get_commands, LINES)
              pc == PageCount(Len(get_commands), LINES)
          IN IF d = 1 /\ selected = S - 1
             THEN /\ selected' = 0
                  /\ page' = (IF page = pc THEN 1 ELSE page + 1)
             ELSE IF d = -1 /\ selected = 0
             THEN /\ page' = (IF page = 1 THEN pc ELSE page - 1)
                  /\ selected' = size(page', get_commands, LINES) - 1
             ELSE /\ page' = page
                  /\ selected' = selected + d]_vars

\* the up key on the first entry of page 1 went to the last entry of a last
\* page that is shorter than page 1
C7_Witness ==
  /\ key.type = "KEY_UP"
  /\ keys = 1
  /\ total_pages(get_commands, LINES) >= 2
  /\ page = total_pages(get_commands, LINES)
  /\ size(page, get_commands, LINES) < size(1, get_commands, LINES)
  /\ selected = size(page, get_commands, LINES) - 1

\* C8: in regex mode, when the query reached by appending or by removing a
\* character does not compile, the active view's sequence is what it was
\* before the key.
C8_InvalidKeepsView ==
  [][(/\ key'.type \in {"CHAR", "KEY_BACKSPACE"}
      /\ search_string' # search_string
      /\ regex_mode
      /\ ~Compiles(search_string', regex_mode, case_sensitivity))
       => commands'[view] = commands[view]]_vars

\* C9: after a character is removed and the shorter query compiles, the
\* active view is filter(snapshot of the active view, shorter query); with an
\* empty query it is the snapshot.
C9_BackspaceRefilters ==
  [][(/\ key'.type = "KEY_BACKSPACE"
      /\ search_string # <<>>
      /\ Compiles(search_string', regex_mode, case_sensitivity))
       => /\ commands'[view] = Filter(to_restore[view], search_string',
                                      regex_mode, case_sensitivity)
          /\ search_string' = <<>> => commands'[view] = to_restore[view]]_vars

\* two characters typed and one removed: the view is wider again than the
\* query of two characters left it, and narrower than the snapshot
C9_Witness ==
  /\ key.type = "KEY_BACKSPACE"
  /\ keys = 3
  /\ Len(search_string) = 1
  /\ Len(get_commands) = 2
  /\ Len(to_restore[view]) = 3

Prefix(q, k) == SubSeq(q, 1, k)

\* C10 as stated: for q1 a prefix of q2 and the same flags, every entry of
\* filter(view, q2) is an entry of filter(view, q1).
C10_Monotonic ==
  \A v \in Views : \A k \in 0..Len(search_string) :
    SetOf(search(to_restore[v], search_string, regex_mode, case_sensitivity))
      \subseteq SetOf(search(to_restore[v], Prefix(search_string, k),
                             regex_mode, case_sensitivity))

\* C10 amended: in literal mode, for q1 a prefix of q2 and the same case
\* flag, every entry of filter(view, q2) is an entry of filter(view, q1).
C10_MonotonicLiteral ==
  ~regex_mode => C10_Monotonic

\* literal mode, a query of two characters that keeps one entry of a view of
\* which its first character keeps two
C10_Witness ==
  /\ ~regex_mode
  /\ Len(search_string) = 2
  /\ Len(search(to_restore[view], search_string, regex_mode, case_sensitivity)) = 1
  /\ Len(search(to_restore[view], Prefix(search_string, 1), regex_mode,
                case_sensitivity)) = 2

\* x contains q, letter case ignored unless cs
SameChar(c, d, cs) == c = d \/ (~cs /\ ToLowerChar(c) = ToLowerChar(d))
ContainsText(x, q, cs) ==
  \E i \in 1..(Len(x) + 1) :
    \A j \in 1..Len(q) : i + j - 1 <= Len(x) /\ SameChar(x[i + j - 1], q[j], cs)

\* C11: in literal mode search leaves in the active view exactly the entries,
\* in their order, that contain the query as a substring, letter case ignored
\* when case_sensitivity is off; the case-sensitive result is a subsequence of
\* the case-insensitive one.
C11_LiteralSearch ==
  [][(key'.type \in {"CHAR", "KEY_BACKSPACE"} /\ ~regex_mode)
       => LET q == search_string'
              base == IF key'.type = "CHAR" THEN commands[view] ELSE to_restore[view]
              Has(x) == ContainsText(x, q, case_sensitivity)
              exact == search(base, q, FALSE, TRUE)
              folded == search(base, q, FALSE, FALSE)
          IN /\ commands'[view] = SelectSeq(base, Has)
             /\ SelectSeq(folded, LAMBDA x : Contains(exact, x)) = exact]_vars

\* case-sensitive literal search for "a" in a view that also holds "Ab"
C11_Witness ==
  /\ key.type = "CHAR"
  /\ keys = 2
  /\ ~regex_mode
  /\ case_sensitivity
  /\ search_string = <<"a">>
  /\ get_commands = <<<<"a">>>>
  /\ Contains(to_restore[view], <<"A", "b">>)

\* C12 as stated: when the write of the favorites (favorite toggle) or of the
\* history (confirmed deletion) fails, the views and RawHistory are what they
\* were before the key.
C12_FailedWriteKeepsState ==
  [][(status' = "aborted")
       => /\ commands' = commands
          /\ to_restore' = to_restore
          /\ raw_history' = raw_history]_vars

\* C13: RawHistory changes only in a confirmed deletion.
C13_OnlyDeleteChangesHistory ==
  [][(raw_history' # raw_history) => (key'.type = "KEY_DC" /\ key'.yes)]_vars

\* a confirmed deletion took the repeated command out of the history
C13_Witness ==
  /\ key.type = "KEY_DC"
  /\ key.yes
  /\ keys = 1
  /\ status = "running"
  /\ raw_history = <<<<"A", "b">>, <<"b">>>>

\* C14: toggle_view goes Sorted -> Favorites -> All -> Sorted, three toggles
\* come back to the view, and nothing but the view tag changes: no view
\* sequence, snapshot, query or flag.
C14_ToggleView ==
  [][(key'.type = "CTRL_SLASH")
       => /\ view' = (IF view = "Sorted" THEN "Favorites"
                      ELSE IF view = "Favorites" THEN "All" ELSE "Sorted")
          /\ toggle_view(toggle_view(view')) = view
          /\ UNCHANGED <<commands, to_restore, search_string, regex_mode,
                         case_sensitivity, raw_history>>]_vars

\* three view keys in a row are back on the Sorted view
C14_Witness ==
  /\ key.type = "CTRL_SLASH"
  /\ keys = 3
  /\ view = "Sorted"
  /\ search_string = <<>>
  /\ ~regex_mode
  /\ ~case_sensitivity
  /\ selected = 0
  /\ page = 1
  /\ commands = to_restore

\* C15: toggle_case and toggle_regex_mode flip their own flag and leave the
\* query, the other flag, the view, every view's sequence, the snapshot and
\* RawHistory alone; the same toggle twice restores the search state.
C15_ToggleFlags ==
  [][(key'.type \in {"CTRL_T", "CTRL_E"})
       => /\ UNCHANGED <<search_string, view, commands, to_restore, raw_history>>
          /\ key'.type = "CTRL_T"
               => /\ case_sensitivity' = ~case_sensitivity
                  /\ regex_mode' = regex_mode
                  /\ toggle_case(case_sensitivity') = case_sensitivity
          /\ key'.type = "CTRL_E"
               => /\ regex_mode' = ~regex_mode
                  /\ case_sensitivity' = case_sensitivity
                  /\ toggle_regex_mode(regex_mode') = regex_mode]_vars

\* the case key pressed twice on a filtered view: the flag is off again and
\* the view still filtered
C15_Witness ==
  /\ key.type = "CTRL_T"
  /\ keys = 3
  /\ ~case_sensitivity
  /\ search_string = <<"a">>
  /\ Len(get_commands) = 2
  /\ Len(to_restore[view]) = 3

TurnKeys == {"KEY_NPAGE", "KEY_PPAGE"}
MoveKeys == {"KEY_UP", "KEY_DOWN"}

\* C16 as stated: the page count of N entries is max(1, ceil(N / page_size)),
\* so 1 for N = 0, and a page turn on an empty sequence leaves page 1.
C16_PageCount ==
  [][(key'.type \in TurnKeys)
       => LET N == Len(get_commands)
          IN /\ total_pages(get_commands, LINES) = PageCount(N, LINES)
             /\ N = 0 => page' = 1]_vars

\* C16, amended: the page count of N entries is ceil(N / page_size), which is
\* max(1, ceil(N / page_size)) for N > 0 and 0 for N = 0; a page turn on an
\* empty sequence, in either direction, sets page_number to 1.
C16_PageCountCeil ==
  [][(key'.type \in TurnKeys)
       => LET N == Len(get_commands)
              p == LINES - 3
              pages == total_pages(get_commands, LINES)
          IN /\ pages * p >= N
             /\ (pages - 1) * p < N
             /\ N > 0 => pages = PageCount(N, LINES)
             /\ N = 0 => (pages = 0 /\ page' = 1)]_vars

\* a page turn on an empty history
C16_Witness ==
  /\ key.type \in TurnKeys
  /\ keys = 1
  /\ raw_history = <<>>
  /\ Len(get_commands) = 0
  /\ total_pages(get_commands, LINES) = 0
  /\ page = 1

\* C17 as stated: on an empty page move_selected and turn_page, in either
\* direction, leave selected_index and page_number as they are.
C17_EmptyPageNoOp ==
  [][(key'.type \in (TurnKeys \cup MoveKeys) /\ size(page, get_commands, LINES) = 0)
       => (selected' = selected /\ page' = page)]_vars

\* the pages 1..n of a sequence one after the other
RECURSIVE PagesUpTo(_, _, _)
PagesUpTo(n, cmds, lines) ==
  IF n = 0 THEN <<>>
  ELSE PagesUpTo(n - 1, cmds, lines) \o contents(n, cmds, lines)

\* C18: page k is the slice of the 0-based positions (k-1)*p up to but
\* excluding min(k*p, N); the pages 1..ceil(N/p) concatenated give back the
\* sequence, every page but the last has p entries, and a page number beyond
\* the last page is empty.
C18_PagesAreSlices ==
  LET cmds == get_commands
      N == Len(cmds)
      p == LINES - 3
      last == CHOOSE k \in 0..N : k * p >= N /\ (k - 1) * p < N
  IN /\ p >= 1
     /\ \A k \in 1..(N + 2) :
          LET c == contents(k, cmds, LINES)
              from == Min((k - 1) * p, N)
              to == Min(k * p, N)
          IN /\ Len(c) = to - from
             /\ \A i \in 1..Len(c) : c[i] = cmds[from + i]
             /\ k < last => Len(c) = p
             /\ k > last => c = <<>>
     /\ PagesUpTo(last, cmds, LINES) = cmds

\* a navigation key went to a last page that is shorter than the others
C18_Witness ==
  /\ key.type \in (TurnKeys \cup MoveKeys)
  /\ Len(get_commands) = 5
  /\ LINES - 3 = 2
  /\ page = 3
  /\ contents(page, get_commands, LINES) = <<get_commands[5]>>
  /\ contents(page + 1, get_commands, LINES) = <<>>

\* C20 as stated: after a key that changes the active view or the query
\* (toggle-view, a typed character, a removed character) pagination is
\* (page_number, selected_index) = (1, 0).
C20_PaginationReset ==
  [][(/\ key'.type \in {"CTRL_SLASH", "CHAR", "KEY_BACKSPACE"}
      /\ (view' # view \/ search_string' # search_string))
       => (page' = 1 /\ selected' = 0)]_vars

\* how often e occurs in h, and the places of its first and last occurrence
Occurrences(h, e) == Len(SelectSeq(h, LAMBDA x : x = e))
FirstSeen(h, e) == CHOOSE i \in 1..Len(h) : h[i] = e /\ \A j \in 1..(i - 1) : h[j] # e
LastSeen(h, e) == CHOOSE i \in 1..Len(h) : h[i] = e /\ \A j \in (i + 1)..Len(h) : h[j] # e
Reverse(s) == [i \in 1..Len(s) |-> s[Len(s) + 1 - i]]

\* each distinct entry of h is in r exactly once
EachOnce(h, r) ==
  /\ SetOf(r) = SetOf(h)
  /\ \A i, j \in 1..Len(r) : r[i] = r[j] => i = j

\* C19 as stated: the ranking of a ranking is that ranking; the ranking of xs
\* holds each distinct entry of xs exactly once, and entries of equal
\* frequency are in first-seen order.
C19_RankIdempotent ==
  LET xs == raw_history
      r == sort(xs)
  IN /\ sort(r) = r
     /\ EachOnce(xs, r)
     /\ \A i, j \in 1..Len(r) :
          (i < j /\ Occurrences(xs, r[i]) = Occurrences(xs, r[j]))
            => FirstSeen(xs, r[i]) < FirstSeen(xs, r[j])

\* C19, amended: the ranking of xs holds each distinct entry of xs exactly
\* once, more frequent entries first and entries of equal frequency in order
\* of their last occurrence, the most recent first; the ranking of a ranking
\* is that ranking reversed. The Sorted snapshot of a running program is the
\* ranking of RawHistory.
C19_RankRecent ==
  LET xs == raw_history
      r == sort(xs)
  IN /\ status = "running" => to_restore["Sorted"] = r
     /\ EachOnce(xs, r)
     /\ \A i, j \in 1..Len(r) :
          i < j => \/ Occurrences(xs, r[i]) > Occurrences(xs, r[j])
                   \/ /\ Occurrences(xs, r[i]) = Occurrences(xs, r[j])
                      /\ LastSeen(xs, r[i]) > LastSeen(xs, r[j])
     /\ sort(r) = Reverse(r)

\* a declined delete key reloaded the ranking of a history in which "a" is the
\* most frequent entry and "Ab" is as frequent as "b" and more recent
C19_Witness ==
  /\ key.type = "KEY_DC"
  /\ ~key.yes
  /\ status = "running"
  /\ raw_history = <<<<"a">>, <<"b">>, <<"a">>, <<"A", "b">>>>
  /\ commands["Sorted"] = <<<<"a">>, <<"A", "b">>, <<"b">>>>

\* C21 as stated: after the search-mode key (literal/regex) pagination is
\* (page_number, selected_index) = (1, 0).
C21_ModeKeyResets ==
  [][(key'.type = "CTRL_E") => (page' = 1 /\ selected' = 0)]_vars

SelectKeys == {"TAB", "ENTER", "KEY_DC", "CTRL_F"}

\* C22 as stated: with an empty current page the select, delete and favorite
\* keys change no model or pagination state, inject nothing, write nothing
\* and do not abort or crash the loop.
C22_NoEntryNoOp ==
  [][(key'.type \in SelectKeys /\ size(page, get_commands, LINES) = 0)
       => /\ status' = "running"
          /\ UNCHANGED <<raw_history, commands, to_restore, search_string,
                         regex_mode, case_sensitivity, view, selected, page,
                         fav_file, hist_file, echoed>>]_vars

\* C23 as stated: after the selected entry was removed from the page of the
\* active view (a favorite removed in the Favorites view, a confirmed
\* deletion), selected_index is one less exactly when it equals the size of
\* the current page after the removal, and is unchanged otherwise.
C23_RetainSelected ==
  [][(/\ status' = "running"
      /\ HasSelected(page, get_commands, LINES, selected)
      /\ \/ key'.type = "KEY_DC" /\ key'.yes
         \/ key'.type = "CTRL_F" /\ view = "Favorites")
       => selected' = (IF selected = size(page', commands'[view'], LINES')
                       THEN selected - 1 ELSE selected)]_vars

\* C24 as stated: after a resize the page size is the one of the new terminal
\* height, page_number is in 1..page_count(N) for that size and the unchanged
\* count N, and the filtered sequence is unchanged.
C24_ResizeClamps ==
  [][(key'.type = "KEY_RESIZE")
       => /\ commands' = commands
          /\ size(1, get_commands', LINES') = Min(LINES' - 3, Len(get_commands))
          /\ page' \in 1..PageCount(Len(get_commands), LINES')]_vars

\* C25 as stated: a command is injected only by TAB or ENTER with an entry
\* under the cursor: the entry at position (page_number - 1) * page_size +
\* selected_index of the filtered sequence, once, with a newline for ENTER
\* only, and then the loop ends; ESC ends the loop and injects nothing; no
\* other key ends the loop.
C25_InjectAndStop ==
  [][LET at == (page - 1) * (LINES - 3) + selected + 1
         entry == get_commands[at]
         under == selected >= 0 /\ selected < LINES - 3 /\ at \in 1..Len(get_commands)
     IN /\ echoed' # echoed => (key'.type \in {"TAB", "ENTER"} /\ under)
        /\ (key'.type = "TAB" /\ under)
             => (echoed' = echoed \o entry /\ status' = "done")
        /\ (key'.type = "ENTER" /\ under)
             => (echoed' = echoed \o entry \o <<NL>> /\ status' = "done")
        /\ key'.type = "ESC" => (echoed' = echoed /\ status' = "done")
        /\ status' # "running"
             => \/ key'.type = "ESC"
                \/ key'.type \in {"TAB", "ENTER"} /\ under]_vars

EditKeys == {"CHAR", "KEY_BACKSPACE"}

\* C26 as stated: a query edit changes only the current sequence of the
\* active view; the current sequences of the two other views and the
\* snapshot are as before.
C26_EditTouchesActiveOnly ==
  [][(key'.type \in EditKeys)
       => /\ to_restore' = to_restore
          /\ \A v \in Views \ {view} : commands'[v] = commands[v]]_vars

\* C27 as stated: in literal mode, the case flag never toggled, every entry
\* of the active view's current sequence contains the current query.
C27_ListMatchesQuery ==
  status = "running"
    => \A i \in 1..Len(get_commands) :
         ContainsText(get_commands[i], search_string, case_sensitivity)

\* C28: in literal mode, with fixed flags and a fixed view, after characters
\* were typed and removed the current sequence of the active view is the
\* snapshot of that view filtered by the current query from scratch.
C28_IncrementalIsScratch ==
  commands[view] =
    SelectSeq(to_restore[view],
              LAMBDA x : ContainsText(x, search_string, case_sensitivity))

\* two characters typed and the second removed: the view is the one that the
\* query "a" gives, larger than the one of "ab" and smaller than the snapshot
C28_Witness ==
  /\ key.type = "KEY_BACKSPACE"
  /\ keys = 3
  /\ search_string = <<"a">>
  /\ Len(get_commands) = 2
  /\ Len(to_restore[view]) = 3

\* C29 as stated: an entry that a favorite toggle added is in the snapshot of
\* Favorites and in the favorites file, and an entry that is there stays
\* there over query edits, view switches and toggles of other entries.
C29_FavoriteStays ==
  [][\A e \in Entries :
       LET added == /\ key'.type = "CTRL_F"
                    /\ status' = "running"
                    /\ ~Contains(commands["Favorites"], e)
                    /\ Contains(commands'["Favorites"], e)
           other == /\ key'.type \in (EditKeys \cup {"CTRL_SLASH", "CTRL_F"})
                    /\ status' = "running"
                    /\ ~(key'.type = "CTRL_F" /\ Current = e)
           Kept(cmds, file) ==
             Contains(cmds["Favorites"], e) /\ Contains(read_file(file), e)
       IN /\ added => Kept(to_restore', fav_file')
          /\ (other /\ Kept(commands, fav_file)) => Kept(commands', fav_file')]_vars

\* C30 as stated: a declined delete key leaves RawHistory, every view's
\* current sequence, the snapshot, the search state, pagination and the
\* files as they were.
C30_DeclinedDeleteNoOp ==
  [][(key'.type = "KEY_DC" /\ ~key'.yes /\ status' = "running")
       => UNCHANGED <<raw_history, commands, to_restore, search_string,
                      regex_mode, case_sensitivity, view, selected, page,
                      fav_file, hist_file>>]_vars

\* the 0-based place in the filtered sequence of the cursor (value, index)
Place(value, index, lines) == (value - 1) * (lines - 3) + index

\* the cursor after n moves in one direction from the cursor c
RECURSIVE MoveTimes(_, _, _, _, _)
MoveTimes(c, cmds, lines, direction, n) ==
  IF n = 0 THEN c
  ELSE MoveTimes(move_selected(c.selected, c.page, cmds, lines, direction),
                 cmds, lines, direction, n - 1)

\* C31: with N > 0 filtered entries and a valid cursor, a forward move puts
\* the cursor on the cyclic successor of the current entry and a backward move
\* on its cyclic predecessor; a forward move followed by a backward move
\* restores (page_number, selected_index); N forward moves from (1, 0) visit
\* the entries one after the other in sequence order and end on (1, 0).
C31_CyclicSuccessor ==
  [][(/\ key'.type \in MoveKeys
      /\ Len(get_commands) > 0
      /\ HasSelected(page, get_commands, LINES, selected))
       => LET d == IF key'.type = "KEY_DOWN" THEN 1 ELSE -1
              N == Len(get_commands)
              start == [selected |-> 0, page |-> 1]
              Visit(k) == MoveTimes(start, get_commands, LINES, 1, k)
          IN /\ HasSelected(page', get_commands, LINES, selected')
             /\ Place(page', selected', LINES) = (Place(page, selected, LINES) + d) % N
             /\ move_selected(selected', page', get_commands, LINES, 0 - d)
                  = [selected |-> selected, page |-> page]
             /\ \A k \in 0..(N - 1) :
                  /\ HasSelected(Visit(k).page, get_commands, LINES, Visit(k).selected)
                  /\ Place(Visit(k).page, Visit(k).selected, LINES) = k
             /\ Visit(N) = start]_vars

\* three forward moves over three entries on pages of two and one are back on
\* the first entry
C31_Witness ==
  /\ key.type = "KEY_DOWN"
  /\ keys = 3
  /\ Len(get_commands) = 3
  /\ LINES - 3 = 2
  /\ page = 1
  /\ selected = 0

====
